---- MODULE Spec2Model ----
(***************************************************************************)
(* The policy engine of src/employees.py: the configuration store, the     *)
(* payment and bonus strategies, the vacation policies, the employee       *)
(* factory, the pay and vacation commands, and the roster (Company) with   *)
(* its transaction ledger.                                                 *)
(*                                                                         *)
(* Conventions.                                                            *)
(*  - An optional Python value (days: int = None, a kwargs entry, an       *)
(*    attribute read through getattr) is a record [set, val]; None is      *)
(*    [set |-> FALSE, val |-> 0].                                          *)
(*  - A configuration document is a function from paths (sequences of      *)
(*    keys) to nodes; a node is a scalar or a mapping.                     *)
(*  - Currency is counted in hundredths (the unit of the ":.2f" the code   *)
(*    prints); a rate is counted in percent (0.10 is 10).                  *)
(*  - A message the code builds with an f-string is a record               *)
(*    [kind, a, b]: kind names the template, a and b are the numbers put   *)
(*    into it.                                                             *)
(*  - Transaction.date (datetime.now) is not modelled: the ledger's order  *)
(*    is its insertion order.                                              *)
(***************************************************************************)
EXTENDS Integers, Sequences, FiniteSets, TLC

VARIABLES
    config,               \* ConfigLoader._config, loaded once per process (the document's name)
    employees,            \* Company.employees
    transaction_history,  \* Company.transaction_history (the ledger)
    origin,               \* history: index of the employee whose command appended each ledger entry
    last,                 \* history: the last call made on the Company and its arguments
    result,               \* what the last call returned (a message, or the raised error)
    view                  \* the list the last get_employee_history returned

vars == <<config, employees, transaction_history, origin, last, result, view>>

(***************************************************************************)
(* Bounds of the model.                                                    *)
(***************************************************************************)
MaxEmployees == 2
MaxLedger == 2

(***************************************************************************)
(* Enums and optional values.                                              *)
(***************************************************************************)
EmployeeRole == {"intern", "manager", "vice_president", "developer"}

EmployeeType == {"salaried", "hourly", "freelancer"}

TransactionType == {"vacation", "vacation_payout", "payment", "bonus"}

None == [set |-> FALSE, val |-> 0]

Some(n) == [set |-> TRUE, val |-> n]

\* Python truthiness of an optional integer: None and 0 are falsy.
Truthy(d) == d.set /\ d.val # 0

\* `d or default` on an optional integer
OrDefault(d, default) == IF Truthy(d) THEN d.val ELSE default

(***************************************************************************)
(* Configuration store.                                                    *)
(***************************************************************************)
Scalar(n) == [k |-> "int", v |-> n]

Mapping == [k |-> "map", v |-> 0]

\* the default_config literal of ConfigLoader._load_config
DefaultConfig ==
    (<<"vacation">> :> Mapping) @@
    (<<"vacation", "default_days">> :> Scalar(25)) @@
    (<<"vacation", "payout_days">> :> Scalar(5)) @@
    (<<"vacation", "policies">> :> Mapping) @@
    (<<"vacation", "policies", "intern">> :> Mapping) @@
    (<<"vacation", "policies", "manager">> :> Mapping) @@
    (<<"vacation", "policies", "manager", "max_payout">> :> Scalar(10)) @@
    (<<"vacation", "policies", "vice_president">> :> Mapping) @@
    (<<"vacation", "policies", "vice_president", "max_per_request">> :> Scalar(5)) @@
    (<<"payment">> :> Mapping) @@
    (<<"payment", "default_hourly_rate">> :> Scalar(50)) @@
    (<<"payment", "default_monthly_salary">> :> Scalar(5000)) @@
    (<<"payment", "bonus">> :> Mapping) @@
    (<<"payment", "bonus", "salaried_percentage">> :> Scalar(10)) @@
    (<<"payment", "bonus", "hourly_bonus_amount">> :> Scalar(100)) @@
    (<<"payment", "bonus", "hourly_hours_threshold">> :> Scalar(160))

\* a config.json found on disk: the default document with fewer default
\* days, the developer limits and the performance rates filled in
CustomConfig ==
    (<<"vacation", "default_days">> :> Scalar(10)) @@
    (<<"vacation", "policies", "developer">> :> Mapping) @@
    (<<"vacation", "policies", "developer", "max_per_request">> :> Scalar(6)) @@
    (<<"vacation", "policies", "developer", "max_payout">> :> Scalar(10)) @@
    (<<"payment", "bonus", "performance">> :> Mapping) @@
    (<<"payment", "bonus", "performance", "salaried">> :> Scalar(5)) @@
    DefaultConfig

\* _load_config: config.json when it exists, else the default document; the
\* variable config holds the name of the document loaded
ConfigDocs == {"default", "custom"}

Document(name) == IF name = "default" THEN DefaultConfig ELSE CustomConfig

\* a value met while walking a document: a node and the path it sits at; the
\* {} that .get(key, {}) returns for a missing key sits nowhere
Root == [k |-> "map", v |-> 0, at |-> <<>>]

Nowhere == <<"">>

EmptyMapping == [k |-> "map", v |-> 0, at |-> Nowhere]

AttributeError == [k |-> "error", v |-> 0, at |-> Nowhere]

\* value.get(key, default) on a walked value
DictGet(doc, value, key, default) ==
    IF value.k = "error" THEN value
    ELSE IF value.k # "map" THEN AttributeError   \* an int has no .get
    ELSE LET p == Append(value.at, key) IN
         IF value.at # Nowhere /\ p \in DOMAIN doc
         THEN [k |-> doc[p].k, v |-> doc[p].v, at |-> p]
         ELSE default

RECURSIVE Walk(_, _, _, _)
Walk(doc, value, keys, i) ==
    IF i > Len(keys) THEN value
    ELSE Walk(doc, DictGet(doc, value, keys[i], EmptyMapping), keys, i + 1)

\* ConfigLoader.get; the dotted path is given split into its keys
get(doc, keys) == Walk(doc, Root, keys, 1)

IsNumber(value) == value.k = "int"

\* a configured number; both documents of ConfigDocs define the keys read this way
Number(doc, keys) == get(doc, keys).v

\* key_path.split('.') on the dotted paths a caller looks up: configured
\* scalars and mappings, keys that are missing at the first, second and last
\* segment, and paths that go on below a scalar and below a missing key
split ==
    ("" :> <<"">>) @@
    ("vacation" :> <<"vacation">>) @@
    ("nothing" :> <<"nothing">>) @@
    ("nothing.at.all" :> <<"nothing", "at", "all">>) @@
    ("vacation.default_days" :> <<"vacation", "default_days">>) @@
    ("vacation.default_days.x" :> <<"vacation", "default_days", "x">>) @@
    ("vacation.nothing" :> <<"vacation", "nothing">>) @@
    ("vacation.policies.intern" :> <<"vacation", "policies", "intern">>) @@
    ("vacation.policies.intern.x" :> <<"vacation", "policies", "intern", "x">>) @@
    ("vacation.policies.developer.max_payout" :>
        <<"vacation", "policies", "developer", "max_payout">>) @@
    ("payment.bonus.performance" :> <<"payment", "bonus", "performance">>) @@
    ("payment.bonus.performance.salaried.x" :>
        <<"payment", "bonus", "performance", "salaried", "x">>)

(***************************************************************************)
(* Arithmetic of the model's units.                                        *)
(***************************************************************************)
\* a currency amount, in hundredths
Hundredths(n) == n * 100

\* amount * rate, the rate in percent
Times(amount, percent) == (amount * percent) \div 100

RECURSIVE SumAmounts(_)
SumAmounts(projects) ==
    IF projects = <<>> THEN 0
    ELSE Head(projects).amount + SumAmounts(Tail(projects))

(***************************************************************************)
(* Payment strategies.                                                     *)
(***************************************************************************)
\* getattr(employee, attr, default) on an optional attribute
GetAttr(attr, default) == IF attr.set THEN attr.val ELSE default

SalariedPaymentStrategy(doc, employee) ==
    Hundredths(GetAttr(employee.monthly_salary,
                       Number(doc, <<"payment", "default_monthly_salary">>)))

HourlyPaymentStrategy(doc, employee) ==
    Hundredths(GetAttr(employee.hourly_rate, 0) * GetAttr(employee.hours_worked, 0))

FreelancerPaymentStrategy(doc, employee) ==
    Hundredths(SumAmounts(employee.projects))

(***************************************************************************)
(* Bonus strategies.                                                       *)
(***************************************************************************)
SalariedBonusStrategy(doc, employee, base_payment) ==
    Times(base_payment, Number(doc, <<"payment", "bonus", "salaried_percentage">>))


\* faulty variant: the threshold itself earns the bonus
HourlyBonusStrategy_Inclusive(doc, employee, base_payment) ==
    LET hours == GetAttr(employee.hours_worked, 0)
        threshold == Number(doc, <<"payment", "bonus", "hourly_hours_threshold">>)
        bonus_amount == Number(doc, <<"payment", "bonus", "hourly_bonus_amount">>)
    IN  IF hours >= threshold THEN Hundredths(bonus_amount) ELSE 0

HourlyBonusStrategy(doc, employee, base_payment) ==
    LET hours == GetAttr(employee.hours_worked, 0)
        threshold == Number(doc, <<"payment", "bonus", "hourly_hours_threshold">>)
        bonus_amount == Number(doc, <<"payment", "bonus", "hourly_bonus_amount">>)
    IN  IF hours > threshold THEN Hundredths(bonus_amount) ELSE 0


\* faulty variant: the strategy of the interns pays the flat hourly bonus
NoBonus_Flat(doc, employee, base_payment) ==
    Hundredths(Number(doc, <<"payment", "bonus", "hourly_bonus_amount">>))

NoBonus(doc, employee, base_payment) == 0

PerformanceBonusStrategy(doc, employee, base_payment) ==
    LET performance_rates == get(doc, <<"payment", "bonus", "performance">>)
        performance_rate == DictGet(doc, performance_rates, employee.employee_type,
                                    [k |-> "int", v |-> 0, at |-> Nowhere])
    IN  Times(base_payment, performance_rate.v)

\* a bonus strategy object without sub-strategies
Leaf(kind) == [kind |-> kind, base_bonus |-> "", extra_bonus |-> ""]

Combined(base_bonus, extra_bonus) ==
    [kind |-> "CombinedBonusStrategy", base_bonus |-> base_bonus, extra_bonus |-> extra_bonus]

LeafBonus(doc, kind, employee, base_payment) ==
    CASE kind = "SalariedBonusStrategy" -> SalariedBonusStrategy(doc, employee, base_payment)
      [] kind = "HourlyBonusStrategy" -> HourlyBonusStrategy(doc, employee, base_payment)
      [] kind = "PerformanceBonusStrategy" -> PerformanceBonusStrategy(doc, employee, base_payment)
      [] kind = "NoBonus" -> NoBonus(doc, employee, base_payment)


\* faulty variant: the combinator leaves the extra bonus out
CombinedBonusStrategy_BaseOnly(doc, strategy, employee, base_payment) ==
    LeafBonus(doc, strategy.base_bonus, employee, base_payment)

CombinedBonusStrategy(doc, strategy, employee, base_payment) ==
    LeafBonus(doc, strategy.base_bonus, employee, base_payment)
    + LeafBonus(doc, strategy.extra_bonus, employee, base_payment)

(***************************************************************************)
(* Employee: delegation to the assigned strategies.                        *)
(***************************************************************************)
calculate_payment(doc, employee) ==
    CASE employee.payment_strategy = "SalariedPaymentStrategy" ->
            SalariedPaymentStrategy(doc, employee)
      [] employee.payment_strategy = "HourlyPaymentStrategy" ->
            HourlyPaymentStrategy(doc, employee)
      [] employee.payment_strategy = "FreelancerPaymentStrategy" ->
            FreelancerPaymentStrategy(doc, employee)

calculate_bonus(doc, employee) ==
    LET base_payment == calculate_payment(doc, employee)
        strategy == employee.bonus_strategy
    IN  IF strategy.kind = "CombinedBonusStrategy"
        THEN CombinedBonusStrategy(doc, strategy, employee, base_payment)
        ELSE LeafBonus(doc, strategy.kind, employee, base_payment)


\* faulty variant: the total leaves the bonus out
calculate_total_payment_NoBonus(doc, employee) == calculate_payment(doc, employee)

calculate_total_payment(doc, employee) ==
    calculate_payment(doc, employee) + calculate_bonus(doc, employee)

(***************************************************************************)
(* Messages.                                                               *)
(***************************************************************************)
Msg(kind, a, b) == [kind |-> kind, a |-> a, b |-> b]

\* the words of each message template (the numbers put in are left out)
MessageWords ==
    [kind \in {"InternRejected", "PayoutProcessed", "PayoutRejected", "VacationProcessed",
               "NotEnoughDays", "VicePresidentMax", "VacationDaysProcessed",
               "RequirementsNotMet", "Paid", "TypeError", "AttributeError", "Created",
               "History"} |->
        CASE kind = "InternRejected" ->
                {"Los", "pasantes", "no", "pueden", "solicitar", "vacaciones", "ni",
                 "compensacion", "monetaria"}
          [] kind = "PayoutProcessed" ->
                {"Payout", "de", "dias", "procesado", "Dias", "restantes"}
          [] kind = "PayoutRejected" ->
                {"No", "se", "puede", "procesar", "el", "payout", "Dias", "disponibles"}
          [] kind = "VacationProcessed" ->
                {"Vacacion", "procesada", "Dias", "restantes"}
          [] kind = "NotEnoughDays" ->
                {"No", "hay", "suficientes", "dias", "de", "vacaciones", "disponibles"}
          [] kind = "VicePresidentMax" ->
                {"Maximo", "dias", "por", "solicitud", "para", "vicepresidentes"}
          [] kind = "VacationDaysProcessed" ->
                {"Vacacion", "de", "dias", "procesada", "Dias", "restantes"}
          [] kind = "RequirementsNotMet" ->
                {"No", "cumple", "con", "los", "requisitos", "para", "la", "solicitud",
                 "de", "vacaciones"}
          [] kind = "Paid" ->
                {"Pagando", "a", "incluye", "bonificacion"}
          [] OTHER -> {}]


\* faulty variant: the sniff also takes the verb's infinitive for a success
Contains_Stem(message, word) ==
    word \in MessageWords[message.kind] \/ "procesar" \in MessageWords[message.kind]

\* `word in result` on the messages above
Contains(message, word) == word \in MessageWords[message.kind]

(***************************************************************************)
(* Vacation policies.  A check returns "True", "False" or "TypeError"      *)
(* (the comparison of an int with the {} a missing limit key reads as).    *)
(***************************************************************************)
Bool(b) == IF b THEN "True" ELSE "False"

\* n <= limit, the limit read from the configuration
LessEq(n, limit) == IF IsNumber(limit) THEN Bool(n <= limit.v) ELSE "TypeError"

\* a and b, b evaluated only when a is true
AndThen(a, b) == IF a THEN b ELSE "False"

Intern_can_take_vacation(doc, employee, days) == "False"

Intern_can_take_payout(doc, employee, days) == "False"


\* faulty variant: an intern's request is granted one day
Intern_process_vacation_Granted(doc, employee, payout, days) ==
    [employee |-> [employee EXCEPT !.vacation_days = @ - 1],
     message |-> Msg("VacationProcessed", 0, employee.vacation_days - 1)]

Intern_process_vacation(doc, employee, payout, days) ==
    [employee |-> employee, message |-> Msg("InternRejected", 0, 0)]

Manager_can_take_vacation(doc, employee, days) ==
    Bool(employee.vacation_days >= days)


\* faulty variant: the payout limit is exclusive
Manager_can_take_payout_Exclusive(doc, employee, days) ==
    AndThen(employee.vacation_days >= days,
            LessEq(days + 1, get(doc, <<"vacation", "policies", "manager", "max_payout">>)))

Manager_can_take_payout(doc, employee, days) ==
    AndThen(employee.vacation_days >= days,
            LessEq(days, get(doc, <<"vacation", "policies", "manager", "max_payout">>)))

\* the f-string of a success: only the templates with {days} carry the day count
SuccessMessage(kind, taken, remaining) ==
    IF kind = "VacationProcessed" THEN Msg(kind, 0, remaining) ELSE Msg(kind, taken, remaining)

\* faulty variant: no rejection carries the available balance
RejectionMessage_NoBalance(kind, balance) == Msg(kind, 0, 0)

\* the text of a rejection: only the payout's carries the available balance
RejectionMessage(kind, balance) ==
    IF kind = "PayoutRejected" THEN Msg(kind, 0, balance) ELSE Msg(kind, 0, 0)

\* the if/else shared by the policies' process_vacation: the check's outcome
\* decides between the deduction with its success message and the rejection;
\* a TypeError raised by the check leaves the employee as it was
Outcome(check, employee, taken, success, rejection) ==
    CASE check = "True" ->
            LET after == [employee EXCEPT !.vacation_days = @ - taken]
            IN  [employee |-> after,
                 message |-> SuccessMessage(success, taken, after.vacation_days)]
      [] check = "False" ->
            [employee |-> employee,
             message |-> RejectionMessage(rejection, employee.vacation_days)]
      [] OTHER ->
            [employee |-> employee, message |-> Msg("TypeError", 0, 0)]

Manager_process_vacation(doc, employee, payout, days) ==
    IF payout
    THEN LET d == OrDefault(days, Number(doc, <<"vacation", "payout_days">>))
         IN  Outcome(Manager_can_take_payout(doc, employee, d), employee, d,
                     "PayoutProcessed", "PayoutRejected")
    ELSE Outcome(Manager_can_take_vacation(doc, employee, 1), employee, 1,
                 "VacationProcessed", "NotEnoughDays")

VicePresident_can_take_vacation(doc, employee, days) ==
    LessEq(days, get(doc, <<"vacation", "policies", "vice_president", "max_per_request">>))

VicePresident_can_take_payout(doc, employee, days) ==
    Bool(employee.vacation_days >= days)

VicePresident_process_vacation(doc, employee, payout, days) ==
    IF payout
    THEN LET d == OrDefault(days, Number(doc, <<"vacation", "payout_days">>))
         IN  Outcome(VicePresident_can_take_payout(doc, employee, d), employee, d,
                     "PayoutProcessed", "PayoutRejected")
    ELSE Outcome(VicePresident_can_take_vacation(doc, employee, 1), employee, 1,
                 "VacationProcessed", "VicePresidentMax")

Developer_can_take_vacation(doc, employee, days) ==
    AndThen(employee.vacation_days >= days,
            LessEq(days, get(doc, <<"vacation", "policies", "developer", "max_per_request">>)))

Developer_can_take_payout(doc, employee, days) ==
    AndThen(employee.vacation_days >= days,
            LessEq(days, get(doc, <<"vacation", "policies", "developer", "max_payout">>)))

Developer_process_vacation(doc, employee, payout, days) ==
    IF payout
    THEN LET d == OrDefault(days, Number(doc, <<"vacation", "payout_days">>))
         IN  Outcome(Developer_can_take_payout(doc, employee, d), employee, d,
                     "PayoutProcessed", "PayoutRejected")
    ELSE LET d == OrDefault(days, 1)
         IN  Outcome(Developer_can_take_vacation(doc, employee, d), employee, d,
                     "VacationDaysProcessed", "RequirementsNotMet")

\* dispatch on the employee's vacation policy object
can_take_vacation(doc, employee, days) ==
    CASE employee.vacation_policy = "InternVacationPolicy" ->
            Intern_can_take_vacation(doc, employee, days)
      [] employee.vacation_policy = "ManagerVacationPolicy" ->
            Manager_can_take_vacation(doc, employee, days)
      [] employee.vacation_policy = "VicePresidentVacationPolicy" ->
            VicePresident_can_take_vacation(doc, employee, days)
      [] employee.vacation_policy = "DeveloperVacationPolicy" ->
            Developer_can_take_vacation(doc, employee, days)

can_take_payout(doc, employee, days) ==
    CASE employee.vacation_policy = "InternVacationPolicy" ->
            Intern_can_take_payout(doc, employee, days)
      [] employee.vacation_policy = "ManagerVacationPolicy" ->
            Manager_can_take_payout(doc, employee, days)
      [] employee.vacation_policy = "VicePresidentVacationPolicy" ->
            VicePresident_can_take_payout(doc, employee, days)
      [] employee.vacation_policy = "DeveloperVacationPolicy" ->
            Developer_can_take_payout(doc, employee, days)

\* Employee.request_vacation
request_vacation(doc, employee, payout, days) ==
    CASE employee.vacation_policy = "InternVacationPolicy" ->
            Intern_process_vacation(doc, employee, payout, days)
      [] employee.vacation_policy = "ManagerVacationPolicy" ->
            Manager_process_vacation(doc, employee, payout, days)
      [] employee.vacation_policy = "VicePresidentVacationPolicy" ->
            VicePresident_process_vacation(doc, employee, payout, days)
      [] employee.vacation_policy = "DeveloperVacationPolicy" ->
            Developer_process_vacation(doc, employee, payout, days)
      [] OTHER ->   \* vacation_policy is None: None has no process_vacation
            [employee |-> employee, message |-> Msg("AttributeError", 0, 0)]

(***************************************************************************)
(* Employee factory.                                                       *)
(***************************************************************************)
NoKwargs == [monthly_salary |-> None, hourly_rate |-> None, hours_worked |-> None,
             projects |-> None]

\* kwargs.get(key, default)
KwargsGet(entry, default) == IF entry.set THEN entry.val ELSE default

\* the locals payment_strategy and bonus_strategy are bound by the three
\* branches on emp_type only: with any other emp_type reading them raises
UnboundLocalError(emp_type) == emp_type \notin EmployeeType

create_employee(doc, name, role, emp_type, kwargs) ==
    LET employee ==
            [name |-> name, role |-> role,
             vacation_days |-> Number(doc, <<"vacation", "default_days">>),
             payment_strategy |-> "", bonus_strategy |-> Leaf(""),
             vacation_policy |-> "", employee_type |-> "",
             monthly_salary |-> None, hourly_rate |-> None, hours_worked |-> None,
             projects |-> <<>>]
        typed ==
            CASE emp_type = "salaried" ->
                    [employee EXCEPT
                        !.monthly_salary =
                            Some(KwargsGet(kwargs.monthly_salary,
                                 Number(doc, <<"payment", "default_monthly_salary">>))),
                        !.payment_strategy = "SalariedPaymentStrategy",
                        !.bonus_strategy =
                            Combined("SalariedBonusStrategy", "PerformanceBonusStrategy")]
              [] emp_type = "hourly" ->
                    [employee EXCEPT
                        !.hourly_rate =
                            Some(KwargsGet(kwargs.hourly_rate,
                                 Number(doc, <<"payment", "default_hourly_rate">>))),
                        !.hours_worked = Some(KwargsGet(kwargs.hours_worked, 0)),
                        !.payment_strategy = "HourlyPaymentStrategy",
                        !.bonus_strategy =
                            Combined("HourlyBonusStrategy", "PerformanceBonusStrategy")]
              [] emp_type = "freelancer" ->
                    [employee EXCEPT
                        !.projects = KwargsGet(kwargs.projects, <<>>),
                        !.payment_strategy = "FreelancerPaymentStrategy",
                        !.bonus_strategy = Leaf("PerformanceBonusStrategy")]
              [] OTHER -> employee
        roled ==
            CASE role = "intern" ->
                    [typed EXCEPT !.vacation_policy = "InternVacationPolicy",
                                  !.bonus_strategy = Leaf("NoBonus")]
              [] role = "manager" ->
                    [typed EXCEPT !.vacation_policy = "ManagerVacationPolicy"]
              [] role = "vice_president" ->
                    [typed EXCEPT !.vacation_policy = "VicePresidentVacationPolicy"]
              [] role = "developer" ->
                    [typed EXCEPT !.vacation_policy = "DeveloperVacationPolicy"]
              [] OTHER -> typed   \* no branch: vacation_policy stays None
    IN  [roled EXCEPT !.employee_type = emp_type]

(***************************************************************************)
(* Commands.                                                               *)
(***************************************************************************)
Transaction(employee_name, transaction_type, amount, description) ==
    [employee_name |-> employee_name, transaction_type |-> transaction_type,
     amount |-> amount, description |-> description]


\* faulty variant: the payment is inserted at the head of the ledger
PayEmployeeCommand_execute_Insert(doc, employee, ledger) ==
    LET total_payment == calculate_total_payment(doc, employee)
    IN  [ledger |-> <<Transaction(employee.name, "payment", total_payment,
                                  Msg("PagoTotal", total_payment, 0))>> \o ledger,
         message |-> Msg("Paid", total_payment, calculate_bonus(doc, employee))]

\* faulty variant: the bonus is recorded whatever its amount
PayEmployeeCommand_execute_Always(doc, employee, ledger) ==
    LET total_payment == calculate_total_payment(doc, employee)
        bonus == calculate_bonus(doc, employee)
    IN  [ledger |-> ledger \o
                    <<Transaction(employee.name, "payment", total_payment,
                                  Msg("PagoTotal", total_payment, 0)),
                      Transaction(employee.name, "bonus", bonus, Msg("Bonificacion", bonus, 0))>>,
         message |-> Msg("Paid", total_payment, bonus)]

PayEmployeeCommand_execute(doc, employee, ledger) ==
    LET total_payment == calculate_total_payment(doc, employee)
        bonus == calculate_bonus(doc, employee)
        payment_transaction ==
            Transaction(employee.name, "payment", total_payment,
                        Msg("PagoTotal", total_payment, 0))
        with_payment == Append(ledger, payment_transaction)
        bonus_transaction ==
            Transaction(employee.name, "bonus", bonus, Msg("Bonificacion", bonus, 0))
    IN  [ledger |-> IF bonus > 0 THEN Append(with_payment, bonus_transaction)
                    ELSE with_payment,
         message |-> Msg("Paid", total_payment, bonus)]

VacationCommand_execute(doc, employee, payout, days, ledger) ==
    LET outcome == request_vacation(doc, employee, payout, days)
        message == outcome.message
        transaction_type == IF payout THEN "vacation_payout" ELSE "vacation"
        days_used ==
            OrDefault(days, IF payout THEN Number(doc, <<"vacation", "payout_days">>) ELSE 1)
    IN  [employee |-> outcome.employee,
         ledger |-> IF Contains(message, "procesado") \/ Contains(message, "procesada")
                    THEN Append(ledger,
                                Transaction(employee.name, transaction_type, days_used, message))
                    ELSE ledger,
         message |-> message]

\* faulty variant: the wrapper returns the line it logged
LoggingDecorator_execute_Line(outcome) == [outcome EXCEPT !.message = Msg("LOG", 0, 0)]

\* LoggingDecorator.execute: the command's outcome, passed through (the line
\* it prints is not part of the state)
LoggingDecorator_execute(outcome) == outcome

(***************************************************************************)
(* Company.                                                                *)
(***************************************************************************)
find_employees_by_role(roster, role) ==
    SelectSeq(roster, LAMBDA emp : emp.role = role)


\* faulty variant: the lookup does not filter by name
get_employee_history_All(ledger, employee_name) == ledger

get_employee_history(ledger, employee_name) ==
    SelectSeq(ledger, LAMBDA t : t.employee_name = employee_name)

pay_employee(doc, employee, ledger) ==
    LoggingDecorator_execute(PayEmployeeCommand_execute(doc, employee, ledger))

process_vacation(doc, employee, payout, days, ledger) ==
    LoggingDecorator_execute(VacationCommand_execute(doc, employee, payout, days, ledger))

\* faulty variant: the loop pays the roster from its last employee to employee i
RECURSIVE pay_all_employees_Reversed(_, _, _, _)
pay_all_employees_Reversed(doc, roster, ledger, i) ==
    IF i > Len(roster) THEN ledger
    ELSE pay_employee(doc, roster[i],
                      pay_all_employees_Reversed(doc, roster, ledger, i + 1)).ledger

\* pay_all_employees: the loop over the roster, from employee i on
RECURSIVE pay_all_employees(_, _, _, _)
pay_all_employees(doc, roster, ledger, i) ==
    IF i > Len(roster) THEN ledger
    ELSE pay_all_employees(doc, roster, pay_employee(doc, roster[i], ledger).ledger, i + 1)

\* the index of the employee each entry of pay_all_employees comes from
RECURSIVE pay_all_origin(_, _, _, _)
pay_all_origin(doc, roster, marks, i) ==
    IF i > Len(roster) THEN marks
    ELSE pay_all_origin(doc, roster,
            marks \o [k \in 1..Len(pay_employee(doc, roster[i], <<>>).ledger) |-> i], i + 1)

(***************************************************************************)
(* The caller's inputs.                                                    *)
(***************************************************************************)
Names == {"ana", "bob"}

DayCounts == {None} \cup {Some(n) : n \in {-1, 0, 6, 10, 20}}

KwargsChoices(emp_type) ==
    CASE emp_type = "salaried" ->
            {[NoKwargs EXCEPT !.monthly_salary = Some(6000)]}
      [] emp_type = "hourly" ->
            {NoKwargs} \cup {[NoKwargs EXCEPT !.hours_worked = Some(h)] : h \in {160, 161}}
      [] emp_type = "freelancer" ->
            {[NoKwargs EXCEPT !.projects =
                Some(<<[name |-> "p1", amount |-> 1000], [name |-> "p2", amount |-> 500]>>)]}
      [] OTHER -> {NoKwargs}

(***************************************************************************)
(* The state machine: the calls a caller makes on one Company.             *)
(***************************************************************************)
\* the record of a call: its operation, the roster index and the name it was
\* given, and the roster and the ledger as they were when it was made
Call(op, idx, name) ==
    [op |-> op, idx |-> idx, name |-> name,
     employees |-> employees, ledger |-> transaction_history]

NoResult == Msg("None", 0, 0)

Init ==
    /\ config \in ConfigDocs
    /\ employees = <<>>
    /\ transaction_history = <<>>
    /\ origin = <<>>
    /\ last = [op |-> "init", idx |-> 0, name |-> "", employees |-> <<>>, ledger |-> <<>>]
    /\ result = NoResult
    /\ view = <<>>

\* EmployeeFactory.create_employee followed by Company.add_employee
AddEmployee(name, role, emp_type, kwargs) ==
    /\ Len(employees) < MaxEmployees
    /\ IF UnboundLocalError(emp_type)
       THEN /\ employees' = employees   \* the factory raised: nothing to add
            /\ last' = Call("add_employee", 0, name)
            /\ result' = Msg("UnboundLocalError", 0, 0)
       ELSE /\ employees' = Append(employees,
                    create_employee(Document(config), name, role, emp_type, kwargs))
            /\ last' = Call("add_employee", Len(employees) + 1, name)
            /\ result' = NoResult
    /\ view' = <<>>
    /\ UNCHANGED <<config, transaction_history, origin>>

\* Company.pay_employee(employees[i])
PayEmployee(i) ==
    LET done == pay_employee(Document(config), employees[i], transaction_history)
    IN  /\ Len(done.ledger) <= MaxLedger
        /\ transaction_history' = done.ledger
        /\ origin' = origin \o [k \in 1..(Len(done.ledger) - Len(transaction_history)) |-> i]
        /\ last' = Call("pay_employee", i, employees[i].name)
        /\ result' = done.message
        /\ view' = <<>>
        /\ UNCHANGED <<config, employees>>

\* Company.pay_all_employees()
PayAllEmployees ==
    LET ledger == pay_all_employees(Document(config), employees, transaction_history, 1)
    IN  /\ Len(ledger) <= MaxLedger
        /\ transaction_history' = ledger
        /\ origin' = pay_all_origin(Document(config), employees, origin, 1)
        /\ last' = Call("pay_all_employees", 0, "")
        /\ result' = NoResult
        /\ view' = <<>>
        /\ UNCHANGED <<config, employees>>

\* Company.process_vacation(employees[i], payout, days)
ProcessVacation(i, payout, days) ==
    LET done == process_vacation(Document(config), employees[i], payout, days, transaction_history)
    IN  /\ Len(done.ledger) <= MaxLedger
        /\ employees' = [employees EXCEPT ![i] = done.employee]
        /\ transaction_history' = done.ledger
        /\ origin' = origin \o [k \in 1..(Len(done.ledger) - Len(transaction_history)) |-> i]
        /\ last' = Call("process_vacation", i, employees[i].name)
        /\ result' = done.message
        /\ view' = <<>>
        /\ UNCHANGED config

\* Company.get_employee_history(name)
GetEmployeeHistory(name) ==
    /\ view' = get_employee_history(transaction_history, name)
    /\ last' = Call("get_employee_history", 0, name)
    /\ result' = NoResult
    /\ UNCHANGED <<config, employees, transaction_history, origin>>

\* the calls of a caller who draws its arguments from the given sets
NextFor(names, roles, types, days_set) ==
    \/ \E name \in names, role \in roles, emp_type \in types :
          \E kwargs \in KwargsChoices(emp_type) : AddEmployee(name, role, emp_type, kwargs)
    \/ \E i \in 1..Len(employees) : PayEmployee(i)
    \/ PayAllEmployees
    \/ \E i \in 1..Len(employees), payout \in BOOLEAN, days \in days_set :
          ProcessVacation(i, payout, days)
    \/ \E name \in names : GetEmployeeHistory(name)

\* every call with every argument of the caller's input sets
Next == NextFor(Names, EmployeeRole, EmployeeType, DayCounts)

Spec == Init /\ [][Next]_vars

\* The vacation side: every role, every day count and both payout flags, on
\* employees of one name and one type (neither is read by a vacation policy);
\* the pay calls stay in.
VacationNext == NextFor({"ana"}, EmployeeRole, {"salaried"}, DayCounts)

VacationSpec == Init /\ [][VacationNext]_vars

\* The pay and ledger side: every employee type and both names (so that two
\* employees may share one), on interns and managers with requests that give
\* no day count; the vacation calls stay in.
PayNext == NextFor(Names, {"intern", "manager"}, EmployeeType, {None})

PaySpec == Init /\ [][PayNext]_vars

\* The factory side: a caller who also passes a role and an employee type
\* that are none of the enums' members.
FactoryRoles == {"manager", "ceo"}

FactoryTypes == {"salaried", "contractor"}

FactoryNext == NextFor({"ana"}, FactoryRoles, FactoryTypes, {None})

FactorySpec == Init /\ [][FactoryNext]_vars

\* ConfigLoader().get(key_path), called by a caller of the store: the value
\* walked to is what the call returns; an AttributeError raised on the way
\* ends the call without a value
ConfigGet(key_path) ==
    LET value == get(Document(config), split[key_path])
    IN  /\ view' = IF value.k = "error" THEN <<>> ELSE <<value>>
        /\ result' = IF value.k = "error" THEN Msg("AttributeError", 0, 0) ELSE NoResult
        /\ last' = Call("get", 0, key_path)
        /\ UNCHANGED <<config, employees, transaction_history, origin>>

\* The configuration side: lookups of any of the dotted paths, between the
\* calls made on a Company of salaried Developers (whose policy reads limit
\* keys only one of the documents defines).
ConfigNext ==
    \/ NextFor({"ana"}, {"developer"}, {"salaried"}, {None})
    \/ \E key_path \in DOMAIN split : ConfigGet(key_path)

ConfigSpec == Init /\ [][ConfigNext]_vars

(***************************************************************************)
(* Vocabulary of the properties.                                           *)
(***************************************************************************)
IsPrefix(s, t) == Len(s) <= Len(t) /\ SubSeq(t, 1, Len(s)) = s

\* the entries a call appended to the ledger
Appended == SubSeq(transaction_history, Len(last.ledger) + 1, Len(transaction_history))

VacationKinds == {"vacation", "vacation_payout"}

\* the policy took the success branch
Succeeded(message) ==
    message.kind \in {"PayoutProcessed", "VacationProcessed", "VacationDaysProcessed"}

\* the policy took a rejection branch
Rejected(message) ==
    message.kind \in {"InternRejected", "PayoutRejected", "NotEnoughDays",
                      "VicePresidentMax", "RequirementsNotMet"}

\* the day count of a request: the one given, else the default of the flow
RequestedDays(doc, payout, days) ==
    IF days.set THEN days.val
    ELSE IF payout THEN Number(doc, <<"vacation", "payout_days">>) ELSE 1

\* the check that corresponds to a request
CorrespondingCheck(doc, employee, payout, days) ==
    IF payout THEN can_take_payout(doc, employee, RequestedDays(doc, payout, days))
    ELSE can_take_vacation(doc, employee, RequestedDays(doc, payout, days))

LastWasVacation == last.op = "process_vacation"

BalanceBefore == last.employees[last.idx].vacation_days

BalanceAfter == employees[last.idx].vacation_days

(***************************************************************************)
(* C1.  In every reachable state every employee's vacation_days is >= 0,   *)
(* and a request never deducts more days than the balance held.  Stated as *)
(* the claim reads; the Vice President's time off is granted without a     *)
(* look at the balance, so the code breaks it.                             *)
(***************************************************************************)
C1_BalanceNeverNegative ==
    /\ \A i \in 1..Len(employees) : employees[i].vacation_days >= 0
    /\ LastWasVacation /\ BalanceAfter < BalanceBefore
          => BalanceBefore - BalanceAfter <= BalanceBefore

(***************************************************************************)
(* C2.  Whenever process_vacation(employee, payout, days) lowers           *)
(* vacation_days, the corresponding check (can_take_payout for a payout,   *)
(* can_take_vacation otherwise) on the same employee state and the same    *)
(* days returns true.  Stated as the claim reads; the Manager's and the    *)
(* Vice President's time off checks 1 day whatever day count is given, so  *)
(* the code breaks it.                                                     *)
(***************************************************************************)
C2_DecreaseOnlyIfCheckPasses ==
    [][\A i \in 1..Len(employees), payout \in BOOLEAN, days \in DayCounts :
          (/\ ProcessVacation(i, payout, days)
           /\ employees'[i].vacation_days < employees[i].vacation_days)
          => CorrespondingCheck(Document(config), employees[i], payout, days) = "True"]_vars

(***************************************************************************)
(* C3.  A Vacation or VacationPayout transaction is appended only by a     *)
(* vacation command whose request succeeded and changed the employee's     *)
(* vacation_days; a rejected request, for any role and any arguments,      *)
(* leaves the ledger and every employee as they were.                      *)
(***************************************************************************)
C3_VacationRecordedOnlyOnSuccess ==
    /\ (\E k \in 1..Len(Appended) : Appended[k].transaction_type \in VacationKinds)
          => /\ LastWasVacation
             /\ Succeeded(result)
             /\ BalanceAfter # BalanceBefore
    /\ LastWasVacation /\ ~Succeeded(result)
          => /\ transaction_history = last.ledger
             /\ employees = last.employees

\* a rejection that follows a recorded success
C3_Witness ==
    /\ LastWasVacation
    /\ Rejected(result)
    /\ Len(transaction_history) > 0
    /\ transaction_history[1].transaction_type \in VacationKinds

(***************************************************************************)
(* C4.  The amount of every Vacation or VacationPayout transaction a       *)
(* vacation command appends equals the number of days by which that        *)
(* command lowered the employee's vacation_days.  Stated as the claim      *)
(* reads; a Manager's or Vice President's time off with an explicit day    *)
(* count deducts 1 day and records the day count, so the code breaks it.   *)
(***************************************************************************)
C4_RecordedAmountIsDeduction ==
    LastWasVacation =>
        \A k \in 1..Len(Appended) :
            Appended[k].transaction_type \in VacationKinds
                => Appended[k].amount = BalanceBefore - BalanceAfter

(***************************************************************************)
(* C5.  A Vice President's time-off request for more days than the         *)
(* configured max_per_request (6 days, the limit being 5) is rejected and  *)
(* leaves vacation_days unchanged.  Stated as the claim reads; the code    *)
(* checks 1 day against the limit and deducts 1 day.                       *)
(***************************************************************************)
C5_VicePresidentOverLimitRejected ==
    [][\A i \in 1..Len(employees) :
          (/\ employees[i].role = "vice_president"
           /\ 6 > Number(Document(config), <<"vacation", "policies", "vice_president",
                                   "max_per_request">>)
           /\ ProcessVacation(i, FALSE, Some(6)))
          => /\ Rejected(result')
             /\ employees'[i].vacation_days = employees[i].vacation_days]_vars

(***************************************************************************)
(* C6.  Under the default configuration a newly created Manager (25 days)  *)
(* who asks for time off, then for a payout of 10 days, then for a payout  *)
(* of 20 days, holds 24, 14 and 14 days after the three requests: the      *)
(* first two succeed (the first message carries 24), the third is          *)
(* rejected and changes nothing.                                           *)
(***************************************************************************)
C6_ManagerScenario ==
    [][\A i \in 1..Len(employees) :
          (employees[i].role = "manager" /\ config = "default") =>
             /\ (employees[i].vacation_days = 25 /\ ProcessVacation(i, FALSE, None))
                   => /\ employees'[i].vacation_days = 24
                      /\ result' = Msg("VacationProcessed", 0, 24)
             /\ (employees[i].vacation_days = 24 /\ ProcessVacation(i, TRUE, Some(10)))
                   => /\ employees'[i].vacation_days = 14
                      /\ result' = Msg("PayoutProcessed", 10, 14)
             /\ (employees[i].vacation_days = 14 /\ ProcessVacation(i, TRUE, Some(20)))
                   => /\ employees' = employees
                      /\ transaction_history' = transaction_history
                      /\ result' = Msg("PayoutRejected", 0, 14)]_vars

\* the three requests were made, in this order, on one Manager
C6_Witness ==
    /\ config = "default"
    /\ LastWasVacation
    /\ employees[last.idx].role = "manager"
    /\ employees[last.idx].vacation_days = 14
    /\ result = Msg("PayoutRejected", 0, 14)
    /\ origin = <<last.idx, last.idx>>
    /\ transaction_history[1].description = Msg("VacationProcessed", 0, 24)
    /\ transaction_history[2].description = Msg("PayoutProcessed", 10, 14)

(***************************************************************************)
(* C7.  For an Intern every process_vacation call, with any payout flag    *)
(* and any day count, returns the one fixed rejection message, leaves      *)
(* vacation_days (and the whole roster) unchanged and appends nothing to   *)
(* the ledger.                                                             *)
(***************************************************************************)
C7_InternAlwaysRejected ==
    (LastWasVacation /\ last.employees[last.idx].role = "intern")
        => /\ result = Msg("InternRejected", 0, 0)
           /\ employees = last.employees
           /\ transaction_history = last.ledger

C7_Witness ==
    /\ LastWasVacation
    /\ employees[last.idx].role = "intern"
    /\ result.kind = "InternRejected"
    /\ employees[last.idx].vacation_days = Number(Document(config), <<"vacation", "default_days">>)

(***************************************************************************)
(* C8.  The entries of the ledger that the commands run on the employees   *)
(* of the set picked appended, in insertion order.                         *)
(***************************************************************************)
Produced(picked) ==
    LET upto[k \in 0..Len(transaction_history)] ==
            IF k = 0 THEN <<>>
            ELSE IF origin[k] \in picked THEN Append(upto[k - 1], transaction_history[k])
                 ELSE upto[k - 1]
    IN  upto[Len(transaction_history)]

(***************************************************************************)
(* C8 as the claim reads: get_employee_history(name) returns exactly the   *)
(* transactions of the commands run on that one employee, whatever was     *)
(* run on the other employees.  Two employees may bear one name, and the   *)
(* lookup returns the transactions of both, so this fails.                 *)
(***************************************************************************)
C8_HistoryOfThatEmployee ==
    \A i \in 1..Len(employees) :
        get_employee_history(transaction_history, employees[i].name)
            = Produced({i})

(***************************************************************************)
(* C8, amended: get_employee_history(name) returns exactly the             *)
(* transactions of the commands run on the employees bearing that name,    *)
(* same count and amounts, in insertion order, whatever was run on the     *)
(* employees of another name.                                              *)
(***************************************************************************)
C8_HistoryOfThatName ==
    /\ \A name \in Names :
          get_employee_history(transaction_history, name)
              = Produced({o \in 1..Len(employees) : employees[o].name = name})
    /\ last.op = "get_employee_history"
          => view = Produced({o \in 1..Len(employees) : employees[o].name = last.name})

\* a lookup on a ledger that holds another employee's transaction as well
C8_Witness ==
    /\ last.op = "get_employee_history"
    /\ Len(transaction_history) = 2
    /\ origin = <<1, 2>>
    /\ employees[1].name # employees[2].name
    /\ Len(view) = 1

(***************************************************************************)
(* C9.  The ledger is append-only: after every call (pay_employee,         *)
(* pay_all_employees, process_vacation, get_employee_history) the ledger   *)
(* as it was before the call is a prefix of the ledger.                    *)
(***************************************************************************)
C9_LedgerAppendOnly == IsPrefix(last.ledger, transaction_history)

\* a call that appended to a ledger that was not empty
C9_Witness ==
    /\ Len(last.ledger) > 0
    /\ Len(transaction_history) > Len(last.ledger)

(***************************************************************************)
(* C10.  pay_employee appends exactly one Payment transaction, the first   *)
(* entry it appends, and its amount is the employee's base payment plus    *)
(* the employee's bonus (calculate_total_payment).                         *)
(***************************************************************************)
C10_OnePaymentOfTotal ==
    last.op = "pay_employee" =>
        LET employee == employees[last.idx]
        IN  /\ Cardinality({k \in 1..Len(Appended) :
                              Appended[k].transaction_type = "payment"}) = 1
            /\ Appended[1].transaction_type = "payment"
            /\ Appended[1].employee_name = employee.name
            /\ Appended[1].amount =
                  calculate_payment(Document(config), employee)
                  + calculate_bonus(Document(config), employee)

\* a payment with a bonus
C10_Witness ==
    /\ last.op = "pay_employee"
    /\ Len(Appended) = 2
    /\ Appended[2].amount > 0

(***************************************************************************)
(* C11.  PayEmployeeCommand.execute appends a Bonus transaction if and     *)
(* only if the employee's bonus is > 0; the Bonus transaction directly     *)
(* follows the command's Payment transaction and its amount is the bonus;  *)
(* when the bonus is 0 (a Freelancer with no performance rate configured)  *)
(* the ledger receives the Payment transaction only.                       *)
(***************************************************************************)
C11_BonusRecordedIffPositive ==
    last.op = "pay_employee" =>
        LET doc == Document(config)
            employee == employees[last.idx]
            bonus == calculate_bonus(doc, employee)
            bonuses == {k \in 1..Len(Appended) : Appended[k].transaction_type = "bonus"}
        IN  /\ (bonuses # {}) <=> (bonus > 0)
            /\ bonus > 0 =>
                  /\ Len(Appended) = 2
                  /\ Appended[1].transaction_type = "payment"
                  /\ Appended[2] = Transaction(employee.name, "bonus", bonus,
                                               Msg("Bonificacion", bonus, 0))
            /\ bonus = 0 =>
                  /\ Len(Appended) = 1
                  /\ Appended[1].transaction_type = "payment"
            /\ (/\ employee.role # "intern"
                /\ employee.employee_type = "freelancer"
                /\ ~IsNumber(get(doc, <<"payment", "bonus", "performance", "freelancer">>)))
                  => /\ bonus = 0
                     /\ Len(Appended) = 1

\* a Freelancer who is no intern, paid for projects of 1000 and 500: one
\* Payment of 1500 and nothing else
C11_Witness ==
    /\ last.op = "pay_employee"
    /\ employees[last.idx].role = "manager"
    /\ employees[last.idx].employee_type = "freelancer"
    /\ Appended = <<Transaction(employees[last.idx].name, "payment", Hundredths(1500),
                                Msg("PagoTotal", Hundredths(1500), 0))>>

(***************************************************************************)
(* C12.  For every employee the factory created with role Intern,          *)
(* calculate_bonus() is 0, whatever the employee type, the type's          *)
(* attributes and the configuration; no Bonus transaction in the ledger    *)
(* comes from paying an Intern.                                            *)
(***************************************************************************)
C12_InternBonusIsZero ==
    /\ \A i \in 1..Len(employees) :
          employees[i].role = "intern"
              => calculate_bonus(Document(config), employees[i]) = 0
    /\ \A k \in 1..Len(transaction_history) :
          employees[origin[k]].role = "intern"
              => transaction_history[k].transaction_type # "bonus"

\* an hourly Intern above the hours threshold was paid: the Payment only
C12_Witness ==
    /\ last.op = "pay_employee"
    /\ employees[last.idx].role = "intern"
    /\ employees[last.idx].employee_type = "hourly"
    /\ employees[last.idx].hours_worked = Some(161)
    /\ Len(Appended) = 1
    /\ Appended[1].amount = Hundredths(50 * 161)

(***************************************************************************)
(* C13.  The hourly-threshold bonus is the configured flat amount when     *)
(* hours_worked > threshold and 0 when hours_worked <= threshold, so       *)
(* exactly 0 at hours_worked = threshold.  Read on the strategy and on     *)
(* what paying an hourly employee who is no Intern records (the            *)
(* documents configure no performance rate for "hourly").                  *)
(***************************************************************************)
C13_HourlyThresholdBonus ==
    LET doc == Document(config)
        threshold == Number(doc, <<"payment", "bonus", "hourly_hours_threshold">>)
        flat == Hundredths(Number(doc, <<"payment", "bonus", "hourly_bonus_amount">>))
        Expected(employee) == IF employee.hours_worked.val > threshold THEN flat ELSE 0
    IN  /\ \A i \in 1..Len(employees) :
              employees[i].employee_type = "hourly" =>
                 /\ HourlyBonusStrategy(doc, employees[i],
                                        calculate_payment(doc, employees[i]))
                        = Expected(employees[i])
                 /\ employees[i].hours_worked.val = threshold
                        => HourlyBonusStrategy(doc, employees[i],
                                               calculate_payment(doc, employees[i])) = 0
                 /\ employees[i].role # "intern"
                        => calculate_bonus(doc, employees[i]) = Expected(employees[i])
        /\ (/\ last.op = "pay_employee"
            /\ employees[last.idx].employee_type = "hourly"
            /\ employees[last.idx].role # "intern")
              => IF employees[last.idx].hours_worked.val > threshold
                 THEN Len(Appended) = 2 /\ Appended[2].amount = flat
                 ELSE Len(Appended) = 1

\* an hourly Manager exactly at the threshold was paid after one above it
\* was added: no Bonus for the first, the flat amount due to the second
C13_Witness ==
    /\ last.op = "pay_employee"
    /\ Len(employees) = 2
    /\ employees[last.idx].role = "manager"
    /\ employees[last.idx].hours_worked = Some(160)
    /\ Len(Appended) = 1
    /\ \E j \in 1..Len(employees) :
          /\ employees[j].role = "manager"
          /\ employees[j].hours_worked = Some(161)
          /\ calculate_bonus(Document(config), employees[j]) = Hundredths(100)

(***************************************************************************)
(* C14.  For a Salaried employee who is no Intern the bonus is the sum of  *)
(* base payment x salaried percentage and base payment x the performance   *)
(* rate configured for "salaried"; with salary 6000, percentage 0.10 and   *)
(* rate 0.05 the base is 6000, the bonus 900 and the total 6900, and       *)
(* paying the employee appends one Payment of 6900 and one Bonus of 900.   *)
(***************************************************************************)
C14_SalariedCombinedBonus ==
    LET doc == Document(config)
        percentage == Number(doc, <<"payment", "bonus", "salaried_percentage">>)
        configured == get(doc, <<"payment", "bonus", "performance", "salaried">>)
        IsCase(employee) == employee.employee_type = "salaried" /\ employee.role # "intern"
        IsScenario(employee) ==
            /\ IsCase(employee)
            /\ employee.monthly_salary = Some(6000)
            /\ percentage = 10
            /\ IsNumber(configured) /\ configured.v = 5
    IN  /\ \A i \in 1..Len(employees) :
              /\ (IsCase(employees[i]) /\ IsNumber(configured)) =>
                    LET base == calculate_payment(doc, employees[i])
                    IN  calculate_bonus(doc, employees[i])
                           = Times(base, percentage) + Times(base, configured.v)
              /\ IsScenario(employees[i]) =>
                    /\ calculate_payment(doc, employees[i]) = Hundredths(6000)
                    /\ calculate_bonus(doc, employees[i]) = Hundredths(900)
                    /\ calculate_total_payment(doc, employees[i]) = Hundredths(6900)
        /\ (last.op = "pay_employee" /\ IsScenario(employees[last.idx])) =>
              /\ Len(Appended) = 2
              /\ Appended[1].transaction_type = "payment"
              /\ Appended[1].amount = Hundredths(6900)
              /\ Appended[2].transaction_type = "bonus"
              /\ Appended[2].amount = Hundredths(900)

\* the scenario's Manager was paid under the document that configures the
\* rate 0.05 for "salaried"
C14_Witness ==
    /\ last.op = "pay_employee"
    /\ employees[last.idx].role = "manager"
    /\ employees[last.idx].monthly_salary = Some(6000)
    /\ get(Document(config), <<"payment", "bonus", "performance", "salaried">>).v = 5
    /\ Len(Appended) = 2
    /\ Appended[1].amount = 690000
    /\ Appended[2].amount = 90000

(***************************************************************************)
(* C15.  ConfigLoader.get never fails: for every dotted path and every     *)
(* loaded document, a path with a segment missing at any depth, a path     *)
(* that goes on below a key resolving to a scalar included, returns an     *)
(* empty mapping and raises no error.  Stated as the claim reads; below a  *)
(* scalar the code calls .get on an int, so the code breaks it.            *)
(***************************************************************************)
C15_GetNeverFails ==
    last.op = "get" =>
        /\ result.kind # "AttributeError"
        /\ split[last.name] \notin DOMAIN Document(config) => view = <<EmptyMapping>>

(***************************************************************************)
(* C16.  For a Developer (the limits being configured) a time-off request  *)
(* with the caller's day count d, 1 when none is given, succeeds exactly   *)
(* when balance >= d and d <= developer max_per_request, and a success     *)
(* lowers vacation_days by exactly d; a payout of d days succeeds exactly  *)
(* when balance >= d and d <= developer max_payout.  Stated as the claim   *)
(* reads; the code takes a day count of 0 for none given (`days or 1`),    *)
(* so the code breaks it.                                                  *)
(***************************************************************************)
C16_DeveloperHonoursDays ==
    [][\A i \in 1..Len(employees), days \in DayCounts :
          LET doc == Document(config)
              balance == employees[i].vacation_days
              max_per_request ==
                  get(doc, <<"vacation", "policies", "developer", "max_per_request">>)
              max_payout == get(doc, <<"vacation", "policies", "developer", "max_payout">>)
              d == RequestedDays(doc, FALSE, days)
              p == RequestedDays(doc, TRUE, days)
          IN  (/\ employees[i].role = "developer"
               /\ IsNumber(max_per_request)
               /\ IsNumber(max_payout)) =>
                 /\ ProcessVacation(i, FALSE, days) =>
                       /\ Succeeded(result') <=> (balance >= d /\ d <= max_per_request.v)
                       /\ Succeeded(result') => employees'[i].vacation_days = balance - d
                 /\ ProcessVacation(i, TRUE, days) =>
                       Succeeded(result') <=> (balance >= p /\ p <= max_payout.v)]_vars

(***************************************************************************)
(* C17.  For a Manager a payout request with no day count uses the         *)
(* configured payout_days (5 by default); it succeeds exactly when         *)
(* balance >= that count and that count <= the configured manager          *)
(* max_payout; a success lowers vacation_days by exactly that count and    *)
(* the message reports the new balance, a failure changes nothing and the  *)
(* message reports the balance as it is.                                   *)
(***************************************************************************)
C17_ManagerDefaultPayout ==
    [][\A i \in 1..Len(employees) :
          LET doc == Document(config)
              balance == employees[i].vacation_days
              count == Number(doc, <<"vacation", "payout_days">>)
              max_payout == get(doc, <<"vacation", "policies", "manager", "max_payout">>)
          IN  (employees[i].role = "manager" /\ ProcessVacation(i, TRUE, None)) =>
                 /\ config = "default" => count = 5
                 /\ IsNumber(max_payout)
                 /\ IF balance >= count /\ count <= max_payout.v
                    THEN /\ employees'[i].vacation_days = balance - count
                         /\ result' = Msg("PayoutProcessed", count, balance - count)
                    ELSE /\ employees' = employees
                         /\ transaction_history' = transaction_history
                         /\ result' = Msg("PayoutRejected", 0, balance)]_vars

\* a Manager who held 10 days took two payouts of the configured 5 days and
\* was refused the third
C17_Witness ==
    /\ LastWasVacation
    /\ employees[last.idx].role = "manager"
    /\ origin = <<last.idx, last.idx>>
    /\ transaction_history[1].description = Msg("PayoutProcessed", 5, 5)
    /\ transaction_history[2].description = Msg("PayoutProcessed", 5, 0)
    /\ result = Msg("PayoutRejected", 0, 0)

(***************************************************************************)
(* C18.  The factory rejects a role or an employee type that is none of    *)
(* the four roles / three types: the call fails and gives no employee; no  *)
(* employee it returns lacks a payment strategy, a bonus strategy or a     *)
(* vacation policy.  Stated as the claim reads, any error raised counting  *)
(* as the failure; with an unknown role the code returns an employee       *)
(* whose vacation_policy is None, so the code breaks it.                   *)
(***************************************************************************)
C18_FactoryRejectsUnknown ==
    [][/\ \A name \in Names, role \in FactoryRoles, emp_type \in FactoryTypes :
            \A kwargs \in KwargsChoices(emp_type) :
               (/\ AddEmployee(name, role, emp_type, kwargs)
                /\ (role \notin EmployeeRole \/ emp_type \notin EmployeeType))
                  => /\ result'.kind \in {"ValueError", "TypeError", "UnboundLocalError"}
                     /\ employees' = employees
       /\ \A i \in 1..Len(employees') :
             /\ employees'[i].payment_strategy # ""
             /\ employees'[i].bonus_strategy # Leaf("")
             /\ employees'[i].vacation_policy # ""]_vars

(***************************************************************************)
(* C19.  Executing a command through the logging wrapper is equivalent to  *)
(* executing it directly: what Company.pay_employee and                    *)
(* Company.process_vacation return, and the ledger and the balances they   *)
(* leave, are those of PayEmployeeCommand.execute and                      *)
(* VacationCommand.execute run on the same employee and ledger; the        *)
(* wrapper adds no transaction and changes no balance.                     *)
(***************************************************************************)
C19_WrapperIsTransparent ==
    [][/\ \A i \in 1..Len(employees) :
            PayEmployee(i) =>
               LET direct == PayEmployeeCommand_execute(Document(config), employees[i],
                                                        transaction_history)
               IN  /\ result' = direct.message
                   /\ transaction_history' = direct.ledger
                   /\ employees' = employees
       /\ \A i \in 1..Len(employees), payout \in BOOLEAN, days \in DayCounts :
            ProcessVacation(i, payout, days) =>
               LET direct == VacationCommand_execute(Document(config), employees[i], payout,
                                                     days, transaction_history)
               IN  /\ result' = direct.message
                   /\ transaction_history' = direct.ledger
                   /\ employees' = [employees EXCEPT ![i] = direct.employee]]_vars

\* a wrapped vacation command that succeeded after a wrapped pay command
C19_Witness ==
    /\ LastWasVacation
    /\ Succeeded(result)
    /\ Len(transaction_history) = 2
    /\ transaction_history[1].transaction_type = "payment"
    /\ transaction_history[2].transaction_type \in VacationKinds
    /\ transaction_history[2].description = result

(***************************************************************************)
(* C20.  Under the built-in default document process_vacation returns an   *)
(* outcome text, a success or a rejection, for every role, Developer       *)
(* included, every payout flag and every day count; no request ends in an  *)
(* error caused by a policy limit key the default document does not        *)
(* define.  Stated as the claim reads; the default document has no         *)
(* developer limits and the Developer's check compares an int with the {}  *)
(* read in their place, so the code breaks it.                             *)
(***************************************************************************)
C20_DefaultDocumentAlwaysAnswers ==
    (config = "default" /\ LastWasVacation)
        => /\ Succeeded(result) \/ Rejected(result)
           /\ result.kind # "TypeError"

(***************************************************************************)
(* C21.  The sum of the amounts of the Vacation and VacationPayout         *)
(* transactions the ledger holds under a name.                             *)
(***************************************************************************)
VacationDaysRecorded(employee_name) ==
    LET history == get_employee_history(transaction_history, employee_name)
        total[k \in 0..Len(history)] ==
            IF k = 0 THEN 0
            ELSE IF history[k].transaction_type \in VacationKinds
                 THEN total[k - 1] + history[k].amount
                 ELSE total[k - 1]
    IN  total[Len(history)]

(***************************************************************************)
(* C21 as the claim reads: every decrease of vacation_days made through    *)
(* Company.process_vacation is recorded.  A command that lowers the        *)
(* balance appends exactly one transaction (VacationPayout for a payout,   *)
(* Vacation otherwise) under the employee's name, and for an employee      *)
(* whose name is unique the initial balance minus the current balance is   *)
(* the sum of the amounts of that employee's Vacation and VacationPayout   *)
(* transactions.  The one transaction is always appended, but a Manager's  *)
(* or Vice President's time off with a day count records the day count     *)
(* and deducts 1, so the code breaks the sum.                              *)
(***************************************************************************)
C21_EveryDecreaseRecorded ==
    /\ (LastWasVacation /\ BalanceAfter < BalanceBefore) =>
          /\ Len(Appended) = 1
          /\ Appended[1].employee_name = employees[last.idx].name
          /\ Appended[1].transaction_type =
                IF result.kind = "PayoutProcessed" THEN "vacation_payout" ELSE "vacation"
    /\ \A i \in 1..Len(employees) :
          (\A j \in 1..Len(employees) : employees[j].name = employees[i].name => j = i)
              => Number(Document(config), <<"vacation", "default_days">>)
                    - employees[i].vacation_days
                 = VacationDaysRecorded(employees[i].name)

(***************************************************************************)
(* C22.  vacation_days is non-increasing: for every role and every day     *)
(* count a caller can pass to process_vacation, zero and negative counts   *)
(* included, no sequence of vacation and pay operations leaves an          *)
(* employee with more vacation_days than at creation.  Stated as the       *)
(* claim reads; no policy checks the sign of the day count, and a granted  *)
(* request for -1 days subtracts -1, so the code breaks it.                *)
(***************************************************************************)
C22_BalanceNeverAboveInitial ==
    /\ \A i \in 1..Len(employees) :
          employees[i].vacation_days
              <= Number(Document(config), <<"vacation", "default_days">>)
    /\ LastWasVacation => BalanceAfter <= BalanceBefore

(***************************************************************************)
(* C23.  An explicit day count is never replaced by a default: for the     *)
(* payouts of a Manager, a Vice President and a Developer, and for a       *)
(* Developer's time off, a request with explicit days = d, d = 0           *)
(* included, is checked and applied with exactly d days (the check for d   *)
(* decides, a success deducts d and records d); payout_days (or 1) is      *)
(* used only when no day count is given.  Stated as the claim reads; the   *)
(* code writes `days or default`, which takes 0 for no day count, so the   *)
(* code breaks it.                                                         *)
(***************************************************************************)
C23_ExplicitDaysHonoured ==
    [][\A i \in 1..Len(employees), payout \in BOOLEAN, days \in DayCounts :
          LET doc == Document(config)
              employee == employees[i]
              d == days.val
              check == IF payout THEN can_take_payout(doc, employee, d)
                       ELSE can_take_vacation(doc, employee, d)
          IN  (/\ days.set
               /\ \/ payout /\ employee.role \in {"manager", "vice_president", "developer"}
                  \/ ~payout /\ employee.role = "developer"
               /\ ProcessVacation(i, payout, days)) =>
                 /\ check = "True" =>
                       /\ Succeeded(result')
                       /\ employees'[i].vacation_days = employee.vacation_days - d
                       /\ transaction_history'[Len(transaction_history')].amount = d
                 /\ check = "False" =>
                       /\ Rejected(result')
                       /\ employees' = employees
                       /\ transaction_history' = transaction_history]_vars

(***************************************************************************)
(* C24.  The Payment transactions among the entries a call appended.       *)
(***************************************************************************)
PaymentsAppended == SelectSeq(Appended, LAMBDA t : t.transaction_type = "payment")

\* what no command may change of an employee
Wiring(employee) ==
    <<employee.name, employee.role, employee.employee_type, employee.payment_strategy,
      employee.bonus_strategy, employee.vacation_policy>>

(***************************************************************************)
(* C24.  Frame of the commands.  pay_employee and pay_all_employees leave  *)
(* every employee's vacation_days unchanged and append only Payment and    *)
(* Bonus transactions; pay_all_employees appends them in roster order,     *)
(* one Payment per employee.  process_vacation on an employee leaves the   *)
(* vacation_days of every other employee unchanged and appends no Payment  *)
(* or Bonus transaction.  No command changes an employee's role, type or   *)
(* assigned strategies and policy.                                         *)
(***************************************************************************)
C24_CommandFrame ==
    /\ last.op \in {"pay_employee", "pay_all_employees"} =>
          /\ employees = last.employees
          /\ \A k \in 1..Len(Appended) :
                Appended[k].transaction_type \in {"payment", "bonus"}
    /\ last.op = "pay_all_employees" =>
          /\ Len(PaymentsAppended) = Len(employees)
          /\ \A k \in 1..Len(PaymentsAppended) :
                /\ PaymentsAppended[k].employee_name = employees[k].name
                /\ PaymentsAppended[k].amount
                      = calculate_total_payment(Document(config), employees[k])
    /\ LastWasVacation =>
          /\ \A j \in 1..Len(employees) :
                j # last.idx => employees[j] = last.employees[j]
          /\ \A k \in 1..Len(Appended) :
                Appended[k].transaction_type \notin {"payment", "bonus"}
    /\ last.op \in {"pay_employee", "pay_all_employees", "process_vacation",
                     "get_employee_history"} =>
          /\ Len(employees) = Len(last.employees)
          /\ \A j \in 1..Len(employees) : Wiring(employees[j]) = Wiring(last.employees[j])

\* pay_all_employees paid a roster of two employees of different names and
\* different pay, first the one, then the other
C24_Witness ==
    /\ last.op = "pay_all_employees"
    /\ Len(employees) = 2
    /\ Len(Appended) = 2
    /\ employees[1].name # employees[2].name
    /\ Appended[1].amount # Appended[2].amount
    /\ Appended[1].employee_name = employees[1].name
    /\ Appended[2].employee_name = employees[2].name

====
